---- MODULE Spec2Model ----
(***************************************************************************)
(* Order placement and the kitchen lane of the restaurant server           *)
(* (expression-panda/amazon.js): POST /api/placeOrder, the sufficiency     *)
(* check checkSufficientIngredients and PUT /api/kitchenNext, run by       *)
(* concurrent request handlers against one PostgreSQL store at the         *)
(* default READ COMMITTED isolation.  A handler's writes stay in its own   *)
(* transaction until COMMIT; every awaited statement is one step.          *)
(***************************************************************************)
EXTENDS Integers, Sequences, FiniteSets, TLC

\* ------------------------------------------------------------------ bounds
MaxOrders == 3       \* values the order_id sequence may hand out

\* longest itemOrdered, largest quantity of a line and largest stock_level the
\* sufficiency check is called with on its own
MaxCartLen == 2
MaxQty == 2
MaxStock == 4

\* largest menu_item_id add-menu may hand out and largest quantity in a
\* submitted ingredient list
MaxMenu == 2
MaxRecipeQty == 1

\* largest total_orders of a daily_totals row
MaxDaily == 5

\* largest quantity of a line of the client cart and number of requests the
\* cart's placeOrder sends
MaxCartQty == 2
MaxFetches == 2

\* largest order id in a list the Kitchen page is handed
MaxPageOrders == 3

\* the request handlers that may be in flight together
Clients == {1, 2}

\* an empty query result: the NULL of (SELECT order_id FROM next_order)
NoRow == 0

\* no order row inserted by this transaction
NoOrder == [order_id |-> NoRow, order_status |-> "none"]

\* --------------------------------------------------------------- catalogue
\* rows of menu (menu_item_id -> menu_item_name)
menu == (1 :> "X") @@ (2 :> "Z") @@ (3 :> "V")

\* rows of menu_ingredients, in table order; menu item 3 has none
menu_ingredients ==
  << [menu_item_id |-> 1, inventory_id |-> 1, quantity_needed |-> 2],
     [menu_item_id |-> 2, inventory_id |-> 1, quantity_needed |-> 1],
     [menu_item_id |-> 2, inventory_id |-> 2, quantity_needed |-> 1] >>

\* sales_price of the menu rows, in whole currency units
sales_price == (1 :> 5) @@ (2 :> 3) @@ (3 :> 2)

\* the tax rate 0.0825 of the carts, in ten-thousandths
TaxPer10000 == 825

\* a cart line as the clients post it: {id, name, quantity}
Line(i, q) == [id |-> i, name |-> menu[i], quantity |-> q]

RECURSIVE SumSeq(_)
SumSeq(s) == IF s = << >> THEN 0 ELSE Head(s) + SumSeq(Tail(s))

\* subtotal of the carts: reduce(acc + item.price * item.quantity, 0)
subtotal(cart) ==
  SumSeq([k \in 1..Len(cart) |-> sales_price[cart[k].id] * cart[k].quantity])

\* variant: the total is sent without the tax
CartTotal_NoTax(cart) == subtotal(cart) * 10000

\* total of the carts: subtotal + tax with tax = subtotal * 0.0825, in 1/10000
CartTotal(cart) == subtotal(cart) * 10000 + subtotal(cart) * TaxPer10000

\* the request bodies (itemAmount) the handlers are driven with
Carts ==
  { << >>,                            \* nothing selected
    << Line(1, 2) >>,                   \* needs 4 of Y, 3 in stock
    << Line(1, 1), Line(2, 1) >> }      \* needs 3 of Y and 1 of W: sufficient

VARIABLES
  orders,          \* committed rows of orders: order_id -> order_status
  order_total,     \* committed rows of orders: order_id -> order_total (in 1/10000)
  order_menu,      \* committed rows of order_menu, in insertion order
  order_seq,       \* last value handed out by the order_id sequence
  lastCompleted,   \* history: the order the latest committed UPDATE completed
  inventory,       \* rows of inventory: inventory_id -> [item_name, stock_level]
  pc,              \* where each handler stands
  itemOrdered,     \* placeOrder: req.body.itemAmount
  total,           \* placeOrder: req.body.total (in 1/10000)
  checkBuilding,   \* placeOrder: rows.length > 0 of the 'building' query
  txOrder,         \* placeOrder: the order row inserted, not yet committed
  txOrderMenu,     \* placeOrder: the order_menu rows inserted, not yet committed
  building_order,  \* kitchenNext: row locked and set to 'complete' (NoRow if none)
  next_order,      \* kitchenNext: row locked and set to 'building' (NoRow if none)
  res,             \* last HTTP status each handler answered with (0: none yet)
  source,          \* kitchenOrders: req.query.source while the handler runs, else ""
  ordersBody,      \* kitchenOrders: the array it answers with
  checkArg,        \* the itemOrdered of a checkSufficientIngredients call on its own
  checked,         \* the results of its runs so far, << >> before the first
  menu_table,      \* rows of menu as add-menu / update-menu see them: id -> [menu_category]
  recipe_table,    \* rows of menu_ingredients as they write them
  menu_seq,        \* last value handed out by the menu_item_id sequence
  menuRes,         \* status add-menu / update-menu answered with last (0: none yet)
  alerted,         \* MenuAdjust.handleSubmit: the submission ended in an alert
  daily_totals,    \* rows of daily_totals: [date, total_orders]
  zpc,             \* getZReport: position of the handler
  zReportItems,    \* getZReport: the array it answered with last
  zRes,            \* getZReport: the status it answered with last (0: none yet)
  selectedItems,   \* CartContext: the cart state
  thrown,          \* CartContext.placeOrder: how the last call ended
  fetches,         \* CartContext.placeOrder: requests sent so far
  pageOrders,      \* Kitchen page: the orders state
  nextOrderCall    \* Kitchen page: the handleNextOrder call and the orders it closed over

vars == << orders, order_total, order_menu, order_seq, lastCompleted, inventory,
           pc, itemOrdered, total, checkBuilding, txOrder, txOrderMenu,
           building_order, next_order, res, source, ordersBody, checkArg, checked,
           menu_table, recipe_table, menu_seq, menuRes, alerted,
           daily_totals, zpc, zReportItems, zRes,
           selectedItems, thrown, fetches, pageOrders, nextOrderCall >>

lane == << orders, order_total, order_menu, order_seq, lastCompleted >>
locals == << itemOrdered, total, checkBuilding, txOrder, txOrderMenu,
             building_order, next_order >>

\* what no placeOrder or kitchenNext handler writes: the inventory table, the
\* kitchenOrders handler, the sufficiency call on its own
menuAdmin == << menu_table, recipe_table, menu_seq, menuRes, alerted >>
zReport == << daily_totals, zpc, zReportItems, zRes >>
cartPage == << selectedItems, thrown, fetches >>

\* what belongs to the other endpoints and to the pages
kitchenPage == << pageOrders, nextOrderCall >>

elsewhere == << menuAdmin, zReport, cartPage, kitchenPage >>

others == << inventory, source, ordersBody, checkArg, checked, elsewhere >>

\* ------------------------------------------------- checkSufficientIngredients
\* result rows of the join menu_ingredients x inventory x oi
QueryRows(cart, inv) ==
  LET M == Len(menu_ingredients)
      N == Len(cart)
      pairs == [k \in 1..(M * N) |-> << ((k - 1) \div N) + 1, ((k - 1) % N) + 1 >>]
      hit(p) == /\ menu_ingredients[p[1]].menu_item_id = cart[p[2]].id
                /\ menu_ingredients[p[1]].inventory_id \in DOMAIN inv
      sel == SelectSeq(pairs, hit)
  IN [k \in 1..Len(sel) |->
        LET mi == menu_ingredients[sel[k][1]]
            oi == cart[sel[k][2]]
        IN [menu_item_id |-> mi.menu_item_id,
            inventory_id |-> mi.inventory_id,
            total_quantity_needed |-> mi.quantity_needed * oi.quantity,
            item_name |-> inv[mi.inventory_id].item_name,
            stock_level |-> inv[mi.inventory_id].stock_level,
            menu_name |-> oi.name,
            quantity |-> oi.quantity]]

\* variant: the set() overwrites the total instead of adding to temp.total
allIngredientsUsed_Overwrites(rows, name) ==
  LET mine == SelectSeq(rows, LAMBDA r : r.item_name = name)
  IN [total |-> IF mine = << >> THEN 0 ELSE mine[Len(mine)].total_quantity_needed,
      itemUsed |-> [k \in 1..Len(mine) |-> << mine[k].menu_name, mine[k].quantity >>]]

\* allIngredientsUsed.get(name) after the forEach over the rows
allIngredientsUsed(rows, name) ==
  LET mine == SelectSeq(rows, LAMBDA r : r.item_name = name)
  IN [total |-> SumSeq([k \in 1..Len(mine) |-> mine[k].total_quantity_needed]),
      itemUsed |-> [k \in 1..Len(mine) |-> << mine[k].menu_name, mine[k].quantity >>]]

\* itemToIngredientMap as a list: one entry per distinct id, in order of first
\* insertion, name and amount from the last line with that id
itemToIngredientMap(cart, rows) ==
  LET first == SelectSeq([k \in 1..Len(cart) |-> k],
                         LAMBDA k : \A j \in 1..(k - 1) : cart[j].id # cart[k].id)
      last(i) == CHOOSE k \in 1..Len(cart) :
                   /\ cart[k].id = i
                   /\ \A j \in (k + 1)..Len(cart) : cart[j].id # i
  IN [n \in 1..Len(first) |->
        LET i == cart[first[n]].id
            mine == SelectSeq(rows, LAMBDA r : r.menu_item_id = i)
        IN [name |-> cart[last(i)].name,
            amount |-> cart[last(i)].quantity,
            ingredient |-> [k \in 1..Len(mine) |->
                              [ingredientName |-> mine[k].item_name,
                               amount |-> mine[k].total_quantity_needed]]]]

\* variant: a cart line that no result row belongs to counts as a shortage
afterQuery_NoRowsIsLow(cart, rows) ==
  LET isLow(k) == rows[k].stock_level < allIngredientsUsed(rows, rows[k].item_name).total
      lows == { k \in 1..Len(rows) : isLow(k) }
      bare == { l \in 1..Len(cart) :
                  \A k \in 1..Len(rows) : rows[k].menu_item_id # cart[l].id }
  IN IF lows # {}
       THEN LET k == CHOOSE j \in lows : \A l \in lows : j <= l
                u == allIngredientsUsed(rows, rows[k].item_name)
            IN [low |-> TRUE,
                second |-> [ingredientName |-> rows[k].item_name,
                            currStock |-> rows[k].stock_level,
                            neededStock |-> u.total,
                            menuItemsUsing |-> u.itemUsed]]
       ELSE IF bare # {}
         THEN [low |-> TRUE,
               second |-> [ingredientName |-> "", currStock |-> 0, neededStock |-> 0,
                           menuItemsUsing |-> << >>]]
         ELSE [low |-> FALSE, second |-> itemToIngredientMap(cart, rows)]

\* the function from res.rows on: the two forEach loops, the shortage loop
\* and the return
afterQuery(cart, rows) ==
  LET isLow(k) == rows[k].stock_level < allIngredientsUsed(rows, rows[k].item_name).total
      lows == { k \in 1..Len(rows) : isLow(k) }
  IN IF lows # {}
       THEN LET k == CHOOSE j \in lows : \A l \in lows : j <= l
                u == allIngredientsUsed(rows, rows[k].item_name)
            IN [low |-> TRUE,
                second |-> [ingredientName |-> rows[k].item_name,
                            currStock |-> rows[k].stock_level,
                            neededStock |-> u.total,
                            menuItemsUsing |-> u.itemUsed]]
       ELSE [low |-> FALSE, second |-> itemToIngredientMap(cart, rows)]

\* with res.rows in the order of QueryRows
checkSufficientIngredients(cart, inv) == afterQuery(cart, QueryRows(cart, inv))

\* ------------------------------------------------------------------- store
StatusIs(s) == { i \in DOMAIN orders : orders[i] = s }

Min(S) == CHOOSE x \in S : \A y \in S : x <= y

\* rows another transaction holds a FOR UPDATE lock on
LockedByOther(c) ==
  { building_order[d] : d \in { e \in Clients \ {c} : pc[e] = "kn_commit" } }
    \cup { next_order[d] : d \in { e \in Clients \ {c} : pc[e] = "kn_commit" } }

\* variant: the CTEs select without FOR UPDATE SKIP LOCKED
SkipLocked_NoLock(c, s) ==
  IF StatusIs(s) = {} THEN NoRow ELSE Min(StatusIs(s))

\* SELECT order_id ... WHERE order_status = s ORDER BY order_id ASC LIMIT 1
\* FOR UPDATE SKIP LOCKED
SkipLocked(c, s) ==
  LET free == StatusIs(s) \ LockedByOther(c)
  IN IF free = {} THEN NoRow ELSE Min(free)

\* the menu tables as add-menu / update-menu start from: the first row of the
\* catalogue with its recipe; nothing was submitted yet
MenuIdle ==
  /\ menu_table = (1 :> [menu_category |-> "entree"])
  /\ recipe_table = { menu_ingredients[k] :
                        k \in { n \in 1..Len(menu_ingredients) :
                                  menu_ingredients[n].menu_item_id = 1 } }
  /\ menu_seq = 1
  /\ menuRes = 0
  /\ alerted = FALSE

\* no closing report so far, nothing aggregated
ZReportIdle ==
  /\ daily_totals = {}
  /\ zpc = "idle"
  /\ zReportItems = << >>
  /\ zRes = 0

\* useState([]) of the cart, no order placed from it
CartIdle ==
  /\ selectedItems = << >>
  /\ thrown = ""
  /\ fetches = 0

\* useState([]) of the Kitchen page
PageIdle ==
  /\ pageOrders = << >>
  /\ nextOrderCall = [pc |-> "idle", orders |-> << >>, stale |-> FALSE, res |-> 0]

ElsewhereIdle == MenuIdle /\ ZReportIdle /\ CartIdle /\ PageIdle

\* empty order tables, every handler idle
LaneIdle ==
  /\ orders = << >>
  /\ order_total = << >>
  /\ order_menu = << >>
  /\ order_seq = 0
  /\ lastCompleted = NoRow
  /\ source = ""
  /\ ordersBody = << >>
  /\ checkArg = << >>
  /\ checked = << >>
  /\ total = [c \in Clients |-> 0]
  /\ inventory = (1 :> [item_name |-> "Y", stock_level |-> 3])
                   @@ (2 :> [item_name |-> "W", stock_level |-> 1])
  /\ pc = [c \in Clients |-> "idle"]
  /\ itemOrdered = [c \in Clients |-> << >>]
  /\ checkBuilding = [c \in Clients |-> FALSE]
  /\ txOrder = [c \in Clients |-> NoOrder]
  /\ txOrderMenu = [c \in Clients |-> << >>]
  /\ building_order = [c \in Clients |-> NoRow]
  /\ next_order = [c \in Clients |-> NoRow]
  /\ res = [c \in Clients |-> 0]

Init == LaneIdle /\ ElsewhereIdle

\* res.status(status) and finally { client.release() }: the handler returns,
\* its transaction is over and its locals are gone
Release(c, status) ==
  /\ pc' = [pc EXCEPT ![c] = "idle"]
  /\ res' = [res EXCEPT ![c] = status]
  /\ itemOrdered' = [itemOrdered EXCEPT ![c] = << >>]
  /\ total' = [total EXCEPT ![c] = 0]
  /\ checkBuilding' = [checkBuilding EXCEPT ![c] = FALSE]
  /\ txOrder' = [txOrder EXCEPT ![c] = NoOrder]
  /\ txOrderMenu' = [txOrderMenu EXCEPT ![c] = << >>]
  /\ building_order' = [building_order EXCEPT ![c] = NoRow]
  /\ next_order' = [next_order EXCEPT ![c] = NoRow]

\* ----------------------------------------------------- POST /api/placeOrder
\* a request arrives; the handler takes a pooled connection
PlaceOrderRequest(c) ==
  /\ pc[c] = "idle"
  /\ order_seq < MaxOrders
  /\ \E cart \in Carts :
       /\ itemOrdered' = [itemOrdered EXCEPT ![c] = cart]
       /\ total' = [total EXCEPT ![c] = CartTotal(cart)]
  /\ pc' = [pc EXCEPT ![c] = "po_check"]
  /\ res' = [res EXCEPT ![c] = 0]
  /\ UNCHANGED << lane, others, checkBuilding, txOrder, txOrderMenu,
                  building_order, next_order >>

\* variant: the result of the check is not looked at
PlaceOrderCheck_IgnoresLow(c) ==
  /\ pc[c] = "po_check"
  /\ pc' = [pc EXCEPT ![c] = "po_building"]
  /\ UNCHANGED << lane, others, res, locals >>

\* await checkSufficientIngredients(itemOrdered); low -> 400, else BEGIN
PlaceOrderCheck(c) ==
  /\ pc[c] = "po_check"
  /\ IF checkSufficientIngredients(itemOrdered[c], inventory).low
       THEN Release(c, 400)
       ELSE /\ pc' = [pc EXCEPT ![c] = "po_building"]
            /\ UNCHANGED << res, locals >>
  /\ UNCHANGED << lane, others >>

\* SELECT * FROM orders WHERE order_status = 'building'
PlaceOrderCheckBuilding(c) ==
  /\ pc[c] = "po_building"
  /\ checkBuilding' = [checkBuilding EXCEPT ![c] = StatusIs("building") # {}]
  /\ pc' = [pc EXCEPT ![c] = "po_insert"]
  /\ UNCHANGED << lane, others, itemOrdered, total, txOrder, txOrderMenu,
                  building_order, next_order, res >>

\* variant: the lane-status read is ignored
NewStatus_AlwaysBuilding(c) == "building"

\* the status the new row is inserted with
NewStatus(c) == IF checkBuilding[c] THEN "waiting" ELSE "building"

\* INSERT INTO orders ... RETURNING order_id
PlaceOrderInsert(c) ==
  /\ pc[c] = "po_insert"
  /\ order_seq' = order_seq + 1
  /\ txOrder' = [txOrder EXCEPT ![c] =
                   [order_id |-> order_seq + 1, order_status |-> NewStatus(c)]]
  /\ pc' = [pc EXCEPT ![c] = IF itemOrdered[c] = << >> THEN "po_commit" ELSE "po_lines"]
  /\ UNCHANGED << orders, order_total, order_menu, lastCompleted, others,
                  itemOrdered, total, checkBuilding, txOrderMenu,
                  building_order, next_order, res >>

\* variant: the INSERT goes through the pool, outside the transaction
PlaceOrderInsertMenu_Autocommit(c) ==
  /\ pc[c] = "po_lines"
  /\ LET k == Len(txOrderMenu[c]) + 1
         selectedItem == itemOrdered[c][k]
         row == [order_id |-> txOrder[c].order_id,
                 menu_item_id |-> selectedItem.id,
                 quantity_ordered |-> selectedItem.quantity]
     IN /\ order_menu' = Append(order_menu, row)
        /\ txOrderMenu' = [txOrderMenu EXCEPT ![c] = Append(@, row)]
        /\ pc' = [pc EXCEPT ![c] = IF k = Len(itemOrdered[c]) THEN "po_commit" ELSE "po_lines"]
  /\ UNCHANGED << orders, order_total, order_seq, lastCompleted, others,
                  itemOrdered, total, checkBuilding, txOrder,
                  building_order, next_order, res >>

\* one turn of the loop: INSERT INTO order_menu for the next selectedItem
PlaceOrderInsertMenu(c) ==
  /\ pc[c] = "po_lines"
  /\ LET k == Len(txOrderMenu[c]) + 1
         selectedItem == itemOrdered[c][k]
     IN /\ txOrderMenu' = [txOrderMenu EXCEPT ![c] =
                             Append(@, [order_id |-> txOrder[c].order_id,
                                        menu_item_id |-> selectedItem.id,
                                        quantity_ordered |-> selectedItem.quantity])]
        /\ pc' = [pc EXCEPT ![c] = IF k = Len(itemOrdered[c]) THEN "po_commit" ELSE "po_lines"]
  /\ UNCHANGED << lane, others, itemOrdered, total, checkBuilding, txOrder,
                  building_order, next_order, res >>

\* variant: the COMMIT also takes the ordered ingredients out of the stock
PlaceOrderCommit_Deducts(c) ==
  /\ pc[c] = "po_commit"
  /\ orders' = (txOrder[c].order_id :> txOrder[c].order_status) @@ orders
  /\ order_total' = (txOrder[c].order_id :> total[c]) @@ order_total
  /\ order_menu' = order_menu \o txOrderMenu[c]
  /\ inventory' =
       [i \in DOMAIN inventory |->
          [inventory[i] EXCEPT !.stock_level =
             @ - allIngredientsUsed(QueryRows(itemOrdered[c], inventory),
                                    inventory[i].item_name).total]]
  /\ Release(c, 201)
  /\ UNCHANGED << order_seq, lastCompleted, source, ordersBody, checkArg, checked,
                  elsewhere >>

\* COMMIT, then 201
PlaceOrderCommit(c) ==
  /\ pc[c] = "po_commit"
  /\ orders' = (txOrder[c].order_id :> txOrder[c].order_status) @@ orders
  /\ order_total' = (txOrder[c].order_id :> total[c]) @@ order_total
  /\ order_menu' = order_menu \o txOrderMenu[c]
  /\ Release(c, 201)
  /\ UNCHANGED << order_seq, lastCompleted, others >>

\* an awaited query of the try block (the sufficiency query, a statement
\* between BEGIN and COMMIT, or COMMIT itself) throws: catch -> ROLLBACK, 500
PlaceOrderRollback(c) ==
  /\ pc[c] \in {"po_check", "po_building", "po_insert", "po_lines", "po_commit"}
  /\ Release(c, 500)
  /\ UNCHANGED << lane, others >>

\* ------------------------------------------------------ PUT /api/kitchenNext
KitchenNextRequest(c) ==
  /\ pc[c] = "idle"
  /\ pc' = [pc EXCEPT ![c] = "kn_update"]
  /\ res' = [res EXCEPT ![c] = 0]
  /\ UNCHANGED << lane, others, locals >>

\* updateOrderQuery: both CTEs lock their row, the UPDATE writes them
updateOrderQuery(c) ==
  /\ pc[c] = "kn_update"
  /\ next_order' = [next_order EXCEPT ![c] = SkipLocked(c, "waiting")]
  /\ building_order' = [building_order EXCEPT ![c] = SkipLocked(c, "building")]
  /\ pc' = [pc EXCEPT ![c] = "kn_commit"]
  /\ UNCHANGED << lane, others, itemOrdered, total, checkBuilding, txOrder,
                  txOrderMenu, res >>

\* variant: the first WHEN branch is lost, the building row is not completed
UpdatedStatus_KeepsBuilding(c, i) ==
  IF i = next_order[c] THEN "building" ELSE orders[i]

\* variant: the WHERE clause is lost and the ELSE branch requeues the row
UpdatedStatus_ElseWaiting(c, i) ==
  IF i = building_order[c] THEN "complete"
  ELSE IF i = next_order[c] THEN "building"
  ELSE "waiting"

\* the CASE of the UPDATE, applied to row i
UpdatedStatus(c, i) ==
  IF i = building_order[c] THEN "complete"
  ELSE IF i = next_order[c] THEN "building"
  ELSE orders[i]

\* COMMIT, then 200
KitchenNextCommit(c) ==
  /\ pc[c] = "kn_commit"
  /\ orders' = [i \in DOMAIN orders |-> UpdatedStatus(c, i)]
  /\ lastCompleted' = IF building_order[c] # NoRow THEN building_order[c]
                      ELSE lastCompleted
  /\ Release(c, 200)
  /\ UNCHANGED << order_total, order_menu, order_seq, others >>

\* the query or COMMIT throws: catch -> ROLLBACK, 500
KitchenNextRollback(c) ==
  /\ pc[c] \in {"kn_update", "kn_commit"}
  /\ Release(c, 500)
  /\ UNCHANGED << lane, others >>

\* ------------------------------------------------------------ specifications
PlaceStep(c) ==
  \/ PlaceOrderRequest(c)
  \/ PlaceOrderCheck(c)
  \/ PlaceOrderCheckBuilding(c)
  \/ PlaceOrderInsert(c)
  \/ PlaceOrderInsertMenu(c)
  \/ PlaceOrderCommit(c)
  \/ PlaceOrderRollback(c)

KitchenStep(c) ==
  \/ KitchenNextRequest(c)
  \/ updateOrderQuery(c)
  \/ KitchenNextCommit(c)
  \/ KitchenNextRollback(c)

\* any number of handlers in flight, interleaved statement by statement
Next == \E c \in Clients : PlaceStep(c) \/ KitchenStep(c)

Spec == Init /\ [][Next]_vars

\* calls executed one at a time: a handler runs only while every other is idle
Alone(c) == \A d \in Clients \ {c} : pc[d] = "idle"

SeqNext ==
  \E c \in Clients :
    \/ (Alone(c) /\ PlaceOrderRequest(c))
    \/ (Alone(c) /\ PlaceOrderCheck(c))
    \/ (Alone(c) /\ PlaceOrderCheckBuilding(c))
    \/ (Alone(c) /\ PlaceOrderInsert(c))
    \/ (Alone(c) /\ PlaceOrderInsertMenu(c))
    \/ (Alone(c) /\ PlaceOrderCommit(c))
    \/ (Alone(c) /\ PlaceOrderRollback(c))
    \/ (Alone(c) /\ KitchenNextRequest(c))
    \/ (Alone(c) /\ updateOrderQuery(c))
    \/ (Alone(c) /\ KitchenNextCommit(c))
    \/ (Alone(c) /\ KitchenNextRollback(c))

SeqSpec == Init /\ [][SeqNext]_vars

\* placements overlap each other, but every kitchenNext call runs alone from
\* its request to its response
KitchenInFlight == { c \in Clients : pc[c] \in {"kn_update", "kn_commit"} }

KitchenAloneNext ==
  \E c \in Clients :
    \/ (KitchenInFlight = {} /\ PlaceOrderRequest(c))
    \/ (KitchenInFlight = {} /\ PlaceOrderCheck(c))
    \/ (KitchenInFlight = {} /\ PlaceOrderCheckBuilding(c))
    \/ (KitchenInFlight = {} /\ PlaceOrderInsert(c))
    \/ (KitchenInFlight = {} /\ PlaceOrderInsertMenu(c))
    \/ (KitchenInFlight = {} /\ PlaceOrderCommit(c))
    \/ (KitchenInFlight = {} /\ PlaceOrderRollback(c))
    \/ (Alone(c) /\ KitchenNextRequest(c))
    \/ (Alone(c) /\ updateOrderQuery(c))
    \/ (Alone(c) /\ KitchenNextCommit(c))
    \/ (Alone(c) /\ KitchenNextRollback(c))

KitchenAloneSpec == Init /\ [][KitchenAloneNext]_vars

\* =================================================================== claims
PlacePcs == {"po_check", "po_building", "po_insert", "po_lines", "po_commit"}

\* handler c takes a step
Moves(c) == << pc[c], txOrderMenu[c] >>' # << pc[c], txOrderMenu[c] >>

\* C1: with the calls executed one at a time from an empty ledger, at most
\* one committed order has status 'building'.
C1_AtMostOneBuilding == Cardinality(StatusIs("building")) <= 1

\* C1 witness: the lane has been advanced and is in use: one order complete,
\* one building, one waiting.
C1_Witness ==
  /\ StatusIs("complete") # {}
  /\ Cardinality(StatusIs("building")) = 1
  /\ StatusIs("waiting") # {}

\* C2: two placements in flight together never both hold an inserted order
\* row with status 'building' (so they cannot both commit as 'building').
C2_NoTwoBuildingInserts ==
  \A c, d \in Clients :
    (c # d /\ txOrder[c] # NoOrder /\ txOrder[d] # NoOrder)
      => ~(txOrder[c].order_status = "building" /\ txOrder[d].order_status = "building")

\* C3: a kitchenNext call that runs its query while another call holds the
\* lock on the earliest 'waiting' row takes no 'waiting' row at all: it does
\* not promote a later one.
C3_LoserPromotesNothing ==
  [][\A c \in Clients :
       ( /\ pc[c] = "kn_update" /\ pc'[c] = "kn_commit"
         /\ StatusIs("waiting") # {}
         /\ Min(StatusIs("waiting")) \in LockedByOther(c) )
         => next_order'[c] = NoRow]_vars

\* C4: in every committed state, if some order is 'waiting' then some order
\* is 'building'.
C4_NoEmptySlotWhileWaiting ==
  StatusIs("waiting") # {} => StatusIs("building") # {}

\* C5: the lane-status read of a placement records whether a 'building' order
\* is committed; the commit of that placement adds exactly one order row,
\* 'waiting' if the read found one and 'building' otherwise; no step of a
\* placement changes the status of an existing order.
C5_PlacementStatus ==
  [][\A c \in Clients :
       /\ (pc[c] = "po_building" /\ pc'[c] = "po_insert")
            => (checkBuilding'[c] <=> \E i \in DOMAIN orders : orders[i] = "building")
       /\ (pc[c] = "po_commit" /\ res'[c] = 201)
            => /\ txOrder[c].order_id \notin DOMAIN orders
               /\ DOMAIN orders' = DOMAIN orders \cup {txOrder[c].order_id}
               /\ orders'[txOrder[c].order_id] =
                    IF checkBuilding[c] THEN "waiting" ELSE "building"
       /\ (pc[c] \in PlacePcs /\ Moves(c))
            => \A i \in DOMAIN orders : i \in DOMAIN orders' /\ orders'[i] = orders[i]
    ]_vars

\* C5 witness: placements have committed both ways: a 'building' order and a
\* 'waiting' order exist and a placement just answered 201.
C5_Witness ==
  /\ \E c \in Clients : res[c] = 201 /\ pc[c] = "idle"
  /\ StatusIs("building") # {}
  /\ StatusIs("waiting") # {}

\* C6: when the sufficiency check of a placement reports a shortage (its
\* query did not throw), the handler answers 400 and returns; the orders and
\* order_menu tables and the order_id sequence are as before and nothing was
\* inserted.
C6_ShortageWritesNothing ==
  [][\A c \in Clients :
       ( /\ pc[c] = "po_check" /\ Moves(c)
         /\ checkSufficientIngredients(itemOrdered[c], inventory).low )
         => /\ res'[c] # 500 => res'[c] = 400
            /\ pc'[c] = "idle"
            /\ orders' = orders /\ order_menu' = order_menu /\ order_seq' = order_seq
            /\ txOrder[c] = NoOrder /\ txOrderMenu[c] = << >>
    ]_vars

\* C6 witness: a placement was answered 400 and the ledger is still empty, no
\* order id was ever handed out.
C6_Witness ==
  /\ \E c \in Clients : res[c] = 400 /\ pc[c] = "idle"
  /\ orders = << >> /\ order_menu = << >> /\ order_seq = 0

\* C7: a placement with an empty cart is never answered 201 and no step of it
\* adds an order row.
C7_EmptyCartRejected ==
  [][\A c \in Clients :
       (pc[c] \in PlacePcs /\ itemOrdered[c] = << >> /\ Moves(c))
         => (res'[c] # 201 /\ orders' = orders)]_vars

\* the order_menu rows of a whole cart for order id
LinesOf(id, cart) ==
  [k \in 1..Len(cart) |-> [order_id |-> id, menu_item_id |-> cart[k].id,
                           quantity_ordered |-> cart[k].quantity]]

\* C8: the row and the lines a placement has inserted are in neither
\* committed table while the placement is in flight; every step of a
\* placement other than its successful COMMIT (ROLLBACK included) leaves both
\* committed tables as they were; the COMMIT adds the order row together with
\* one order_menu row per cart line.
C8_AllOrNothing ==
  [][\A c \in Clients :
       /\ txOrder[c] # NoOrder
            => /\ txOrder[c].order_id \notin DOMAIN orders
               /\ \A k \in 1..Len(order_menu) : order_menu[k].order_id # txOrder[c].order_id
       /\ (pc[c] \in PlacePcs /\ Moves(c) /\ res'[c] # 201)
            => (orders' = orders /\ order_menu' = order_menu)
       /\ (pc[c] \in PlacePcs /\ Moves(c) /\ res'[c] = 201)
            => /\ txOrder[c].order_id \in DOMAIN orders'
               /\ order_menu' = order_menu \o LinesOf(txOrder[c].order_id, itemOrdered[c])
    ]_vars

\* C8 witness: the one order id handed out so far was inserted by a placement
\* that was then rolled back (500): both tables are empty.
C8_Witness ==
  /\ order_seq = 1 /\ orders = << >> /\ order_menu = << >>
  /\ \A c \in Clients : pc[c] = "idle"
  /\ \E c \in Clients : res[c] = 500 /\ \A d \in Clients \ {c} : res[d] = 0

\* C9: a kitchenNext call that runs alone and commits turns every 'building'
\* order into 'complete' and the 'waiting' order with the smallest id into
\* 'building', changes nothing else, leaves no 'building' order when none was
\* 'waiting', and answers 200.
C9_AdvanceAlone ==
  [][\A c \in Clients :
       (pc[c] = "kn_commit" /\ pc'[c] = "idle" /\ res'[c] # 500)
         => LET W == StatusIs("waiting")
            IN /\ res'[c] = 200
               /\ DOMAIN orders' = DOMAIN orders
               /\ \A i \in DOMAIN orders :
                    orders'[i] = IF orders[i] = "building" THEN "complete"
                                 ELSE IF W # {} /\ i = Min(W) THEN "building"
                                 ELSE orders[i]
               /\ W = {} => \A i \in DOMAIN orders : orders'[i] # "building"
    ]_vars

\* C10: whenever a committed order moves from 'waiting' to 'building', no
\* order with a smaller id is 'waiting' in the committed table.
C10_FifoPromotion ==
  [][\A i \in DOMAIN orders :
       (orders[i] = "waiting" /\ i \in DOMAIN orders' /\ orders'[i] = "building")
         => \A j \in DOMAIN orders' : j < i => orders'[j] # "waiting"]_vars

\* C11: two kitchenNext calls in flight together never hold the same row for
\* the waiting -> building transition, nor the same row for the
\* building -> complete transition.
C11_NoSharedTransition ==
  \A c, d \in Clients :
    (c # d /\ pc[c] = "kn_commit" /\ pc[d] = "kn_commit")
      => /\ next_order[c] # NoRow => next_order[c] # next_order[d]
         /\ building_order[c] # NoRow => building_order[c] # building_order[d]

\* C11 witness: two kitchenNext calls overlap after their queries; one holds
\* the building row and a waiting row, the other holds a different row.
C11_Witness ==
  \E c, d \in Clients :
    /\ c # d /\ pc[c] = "kn_commit" /\ pc[d] = "kn_commit"
    /\ building_order[c] # NoRow /\ next_order[c] # NoRow
    /\ next_order[d] # NoRow

\* C12: in every step every committed order row stays in the table and its
\* status stays as it is or moves waiting -> building or building -> complete.
C12_ForwardOnly ==
  [][\A i \in DOMAIN orders :
       /\ i \in DOMAIN orders'
       /\ \/ orders'[i] = orders[i]
          \/ (orders[i] = "waiting" /\ orders'[i] = "building")
          \/ (orders[i] = "building" /\ orders'[i] = "complete")]_vars

\* C12 witness: two orders have run through the lane to 'complete' while a
\* third is in it.
C12_Witness ==
  /\ Cardinality(StatusIs("complete")) >= 2
  /\ StatusIs("building") \cup StatusIs("waiting") # {}

\* the cart a committed order was placed with, read back from its order_menu rows
CartOf(i) ==
  LET mine == SelectSeq(order_menu, LAMBDA r : r.order_id = i)
  IN [k \in 1..Len(mine) |-> Line(mine[k].menu_item_id, mine[k].quantity_ordered)]

\* C15: no step of a placement or of a lane advance changes an inventory row,
\* and a placement is answered 400 for a shortage only when its cart is the
\* cart of no committed order: what was accepted once is accepted again.
C15_StockNeverConsumed ==
  [][/\ inventory' = inventory
     /\ \A c \in Clients :
          (pc[c] = "po_check" /\ pc'[c] = "idle" /\ res'[c] = 400)
            => \A i \in DOMAIN orders : CartOf(i) # itemOrdered[c]]_vars

\* C15 witness: two committed orders of the cart that needs the whole stock of
\* an ingredient, so that their joint demand exceeds the stock.
C15_Witness ==
  \E i, j \in DOMAIN orders :
    /\ i # j /\ CartOf(i) = CartOf(j) /\ CartOf(i) # << >>
    /\ \E n \in DOMAIN inventory :
         allIngredientsUsed(QueryRows(CartOf(i), inventory),
                            inventory[n].item_name).total = inventory[n].stock_level

\* C16 as stated: the order_total of every committed order is the sum over its
\* lines of sales_price times quantity ordered.
C16_TotalIsSubtotal ==
  \A i \in DOMAIN orders : order_total[i] = subtotal(CartOf(i)) * 10000

\* C16: the order_total of every committed order is the total its client sent,
\* the sum over its lines of sales_price times quantity ordered plus 8.25 % of
\* that sum.
C16_TotalIsSubtotalPlusTax ==
  \A i \in DOMAIN orders :
    order_total[i] = subtotal(CartOf(i)) * (10000 + TaxPer10000)

\* C16 witness: a committed order of two lines carries a total above its
\* subtotal.
C16_Witness ==
  \E i \in DOMAIN orders :
    /\ Len(CartOf(i)) = 2
    /\ order_total[i] > subtotal(CartOf(i)) * 10000

\* ------------------------------- checkSufficientIngredients called on its own
\* the inventory table with the given stock levels
Stock(y, w) ==
  (1 :> [item_name |-> "Y", stock_level |-> y])
    @@ (2 :> [item_name |-> "W", stock_level |-> w])

\* every itemOrdered of up to MaxCartLen lines, the same menu item in more
\* than one line included
CheckCarts ==
  UNION { [1..n -> { Line(i, q) : i \in DOMAIN menu, q \in 1..MaxQty }] :
            n \in 0..MaxCartLen }

CheckInit ==
  /\ orders = << >>
  /\ order_total = << >>
  /\ order_menu = << >>
  /\ order_seq = 0
  /\ lastCompleted = NoRow
  /\ source = ""
  /\ ordersBody = << >>
  /\ checkArg \in CheckCarts
  /\ checked = << >>
  /\ inventory \in { Stock(y, w) : y, w \in 0..MaxStock }
  /\ pc = [c \in Clients |-> "idle"]
  /\ itemOrdered = [c \in Clients |-> << >>]
  /\ total = [c \in Clients |-> 0]
  /\ checkBuilding = [c \in Clients |-> FALSE]
  /\ txOrder = [c \in Clients |-> NoOrder]
  /\ txOrderMenu = [c \in Clients |-> << >>]
  /\ building_order = [c \in Clients |-> NoRow]
  /\ next_order = [c \in Clients |-> NoRow]
  /\ res = [c \in Clients |-> 0]
  /\ ElsewhereIdle

\* const result = await checkSufficientIngredients(itemOrdered)
CheckCall ==
  /\ checked = << >>
  /\ checked' = << checkSufficientIngredients(checkArg, inventory) >>
  /\ UNCHANGED << lane, inventory, source, ordersBody, checkArg, pc, locals, res,
                  elsewhere >>

CheckNext == CheckCall

CheckSpec == CheckInit /\ [][CheckNext]_vars

\* the recipe rows of menu item i
Recipe(i) == SelectSeq(menu_ingredients, LAMBDA r : r.menu_item_id = i)

\* the quantity of menu item i over all lines of the cart
Qty(cart, i) ==
  SumSeq([k \in 1..Len(cart) |-> IF cart[k].id = i THEN cart[k].quantity ELSE 0])

\* the demand of the cart for inventory row n: recipe quantity times ordered
\* quantity, added up over all lines
Demand(cart, n) ==
  SumSeq([k \in 1..Len(cart) |->
            SumSeq([j \in 1..Len(Recipe(cart[k].id)) |->
                      IF Recipe(cart[k].id)[j].inventory_id = n
                        THEN Recipe(cart[k].id)[j].quantity_needed * cart[k].quantity
                        ELSE 0])])

\* the inventory rows whose stock the cart's demand exceeds
Short(cart) ==
  { n \in DOMAIN inventory : Demand(cart, n) > inventory[n].stock_level }

\* C13: when no inventory row is short, the call returns low = false and a
\* breakdown with exactly one entry per ordered menu item, whose ingredient
\* list has one element per recipe row with amount = recipe quantity times the
\* quantity of the item over all cart lines.
C13_BreakdownSummed ==
  (checked # << >> /\ Short(checkArg) = {})
    => /\ ~checked[1].low
       /\ LET ids == { checkArg[k].id : k \in 1..Len(checkArg) }
              b == checked[1].second
          IN /\ Len(b) = Cardinality(ids)
             /\ \A i \in ids :
                  \E n \in 1..Len(b) :
                    /\ b[n].name = menu[i]
                    /\ Len(b[n].ingredient) = Len(Recipe(i))
                    /\ \A j \in 1..Len(Recipe(i)) :
                         b[n].ingredient[j] =
                           [ingredientName |-> inventory[Recipe(i)[j].inventory_id].item_name,
                            amount |-> Recipe(i)[j].quantity_needed * Qty(checkArg, i)]

NullText == "NULL"
NullNumber == -1

\* the elements of a set of integers in ascending order
RECURSIVE Ascending(_)
Ascending(S) == IF S = {} THEN << >> ELSE << Min(S) >> \o Ascending(S \ {Min(S)})

RECURSIVE Concat(_)
Concat(ss) == IF ss = << >> THEN << >> ELSE Head(ss) \o Concat(Tail(ss))

\* the rows of the kitchen query for order i: orders LEFT JOIN order_menu
\* LEFT JOIN menu LEFT JOIN menu_ingredients LEFT JOIN inventory
OrderRows(i) ==
  LET lines == SelectSeq(order_menu, LAMBDA r : r.order_id = i)
      row(name, quantity, ingredient, amount) ==
        [order_id |-> i, order_status |-> orders[i],
         item_name |-> name, item_quantity |-> quantity,
         ingredient_name |-> ingredient, ingredient_amount |-> amount]
      lineRows(om) ==
        LET mis == Recipe(om.menu_item_id)
        IN IF mis = << >>
             THEN << row(menu[om.menu_item_id], om.quantity_ordered, NullText, NullNumber) >>
             ELSE [j \in 1..Len(mis) |->
                     row(menu[om.menu_item_id], om.quantity_ordered,
                         inventory[mis[j].inventory_id].item_name,
                         mis[j].quantity_needed)]
  IN IF lines = << >>
       THEN << row(NullText, NullNumber, NullText, NullNumber) >>
       ELSE Concat([k \in 1..Len(lines) |-> lineRows(lines[k])])

\* result.rows of the kitchen query: WHERE order_status IN ('building',
\* 'waiting') ORDER BY order_status ASC, order_id ASC
KitchenRows ==
  LET sorted == Ascending(StatusIs("building")) \o Ascending(StatusIs("waiting"))
  IN Concat([n \in 1..Len(sorted) |-> OrderRows(sorted[n])])

\* ordersMap[i].item after the forEach: one item per item_name in order of
\* first row, amount from that row, one ingredient pushed per row
ItemsOf(rows) ==
  LET first == SelectSeq([k \in 1..Len(rows) |-> k],
                         LAMBDA k : \A j \in 1..(k - 1) :
                                      rows[j].item_name # rows[k].item_name)
  IN [n \in 1..Len(first) |->
        LET mine == SelectSeq(rows, LAMBDA r : r.item_name = rows[first[n]].item_name)
        IN [name |-> rows[first[n]].item_name,
            amount |-> rows[first[n]].item_quantity,
            ingredient |-> [k \in 1..Len(mine) |->
                              [ingredientName |-> mine[k].ingredient_name,
                               amount |-> mine[k].ingredient_amount]]]]

\* Object.values(ordersMap): the keys of ordersMap are integers, so the values
\* come in ascending order of order_id, not in the order of the rows
KitchenOrders ==
  LET rows == KitchenRows
      keys == Ascending({ rows[k].order_id : k \in 1..Len(rows) })
  IN [n \in 1..Len(keys) |->
        LET mine == SelectSeq(rows, LAMBDA r : r.order_id = keys[n])
        IN [id |-> keys[n], status |-> mine[1].order_status, item |-> ItemsOf(mine)]]

\* SELECT MAX(order_id) FROM orders WHERE order_status = 'complete'
MaxComplete ==
  IF StatusIs("complete") = {} THEN NoRow
  ELSE CHOOSE x \in StatusIs("complete") : \A y \in StatusIs("complete") : y <= x

\* result.rows.map of the menu query: the complete order with the largest id,
\* then ORDER BY order_status ASC, order_id ASC
MenuOrders ==
  LET sorted == (IF MaxComplete = NoRow THEN << >> ELSE << MaxComplete >>)
                  \o Ascending(StatusIs("building"))
                  \o Ascending(StatusIs("waiting"))
  IN [n \in 1..Len(sorted) |-> [id |-> sorted[n], status |-> orders[sorted[n]]]]

\* the array the handler answers with for a source
OrdersFor(s) == IF s = "kitchen" THEN KitchenOrders ELSE MenuOrders

\* req.query.source of the two views; any other source is answered [] without
\* a query
Sources == {"kitchen", "menu"}

\* variant: the handler clears order_menu once it has read it
KitchenOrdersQuery_Truncates(s) ==
  /\ source = ""
  /\ source' = s
  /\ ordersBody' = OrdersFor(s)
  /\ order_menu' = << >>
  /\ UNCHANGED << orders, order_total, order_seq, lastCompleted, inventory,
                  checkArg, checked, pc, locals, res, elsewhere >>

\* the request arrives and pool.query resolves: orders is built from the rows
KitchenOrdersQuery(s) ==
  /\ source = ""
  /\ source' = s
  /\ ordersBody' = OrdersFor(s)
  /\ UNCHANGED << lane, inventory, checkArg, checked, pc, locals, res, elsewhere >>

\* res.json(orders) in the same turn of the event loop; the handler is done
KitchenOrdersSend ==
  /\ source # ""
  /\ source' = ""
  /\ ordersBody' = << >>
  /\ UNCHANGED << lane, inventory, checkArg, checked, pc, locals, res, elsewhere >>

\* the lane handlers overlap each other; what follows pool.query in the
\* kitchenOrders handler is synchronous, no other handler runs before it is done
ViewNext ==
  \/ \E c \in Clients :
       \/ (source = "" /\ PlaceOrderRequest(c))
       \/ (source = "" /\ PlaceOrderCheck(c))
       \/ (source = "" /\ PlaceOrderCheckBuilding(c))
       \/ (source = "" /\ PlaceOrderInsert(c))
       \/ (source = "" /\ PlaceOrderInsertMenu(c))
       \/ (source = "" /\ PlaceOrderCommit(c))
       \/ (source = "" /\ PlaceOrderRollback(c))
       \/ (source = "" /\ KitchenNextRequest(c))
       \/ (source = "" /\ updateOrderQuery(c))
       \/ (source = "" /\ KitchenNextCommit(c))
       \/ (source = "" /\ KitchenNextRollback(c))
  \/ \E s \in Sources : KitchenOrdersQuery(s)
  \/ KitchenOrdersSend

ViewSpec == Init /\ [][ViewNext]_vars

\* the stocks the views are read under: the stock of Init, and one under which
\* the cart with quantity 2 is accepted
ViewStocks == { Stock(3, 1), Stock(5, 0) }

SeqViewInit ==
  /\ orders = << >>
  /\ order_total = << >>
  /\ order_menu = << >>
  /\ order_seq = 0
  /\ lastCompleted = NoRow
  /\ source = ""
  /\ ordersBody = << >>
  /\ checkArg = << >>
  /\ checked = << >>
  /\ inventory \in ViewStocks
  /\ pc = [c \in Clients |-> "idle"]
  /\ itemOrdered = [c \in Clients |-> << >>]
  /\ total = [c \in Clients |-> 0]
  /\ checkBuilding = [c \in Clients |-> FALSE]
  /\ txOrder = [c \in Clients |-> NoOrder]
  /\ txOrderMenu = [c \in Clients |-> << >>]
  /\ building_order = [c \in Clients |-> NoRow]
  /\ next_order = [c \in Clients |-> NoRow]
  /\ res = [c \in Clients |-> 0]
  /\ ElsewhereIdle

\* every call, the lane handlers included, runs alone from request to response
SeqViewNext ==
  \/ \E c \in Clients :
       \/ (source = "" /\ Alone(c) /\ PlaceOrderRequest(c))
       \/ (source = "" /\ Alone(c) /\ PlaceOrderCheck(c))
       \/ (source = "" /\ Alone(c) /\ PlaceOrderCheckBuilding(c))
       \/ (source = "" /\ Alone(c) /\ PlaceOrderInsert(c))
       \/ (source = "" /\ Alone(c) /\ PlaceOrderInsertMenu(c))
       \/ (source = "" /\ Alone(c) /\ PlaceOrderCommit(c))
       \/ (source = "" /\ Alone(c) /\ PlaceOrderRollback(c))
       \/ (source = "" /\ Alone(c) /\ KitchenNextRequest(c))
       \/ (source = "" /\ Alone(c) /\ updateOrderQuery(c))
       \/ (source = "" /\ Alone(c) /\ KitchenNextCommit(c))
       \/ (source = "" /\ Alone(c) /\ KitchenNextRollback(c))
  \/ \E s \in Sources : ((\A c \in Clients : pc[c] = "idle") /\ KitchenOrdersQuery(s))
  \/ KitchenOrdersSend

SeqViewSpec == SeqViewInit /\ [][SeqViewNext]_vars

\* C17: the array of the kitchen view lists exactly the 'building' and
\* 'waiting' orders with their status, the 'building' ones first, then the
\* 'waiting' ones, each group in ascending order of id.
C17_KitchenBuildingFirst ==
  source = "kitchen" =>
    /\ [n \in 1..Len(ordersBody) |-> ordersBody[n].id]
         = Ascending(StatusIs("building")) \o Ascending(StatusIs("waiting"))
    /\ \A n \in 1..Len(ordersBody) : ordersBody[n].status = orders[ordersBody[n].id]

\* C18: in the array of the kitchen view every line of every order has an
\* item whose ingredient amounts are those of the placement-time breakdown of
\* that line: recipe quantity times quantity ordered.
C18_KitchenAmounts ==
  source = "kitchen" =>
    \A n \in 1..Len(ordersBody) :
      \A k \in 1..Len(CartOf(ordersBody[n].id)) :
        LET line == CartOf(ordersBody[n].id)[k]
        IN \E j \in 1..Len(ordersBody[n].item) :
             /\ ordersBody[n].item[j].name = line.name
             /\ ordersBody[n].item[j].ingredient
                  = itemToIngredientMap(<< line >>,
                                        QueryRows(<< line >>, inventory))[1].ingredient

\* C19: the array of the board view is the most recently completed order, if
\* any, then the 'building' orders, then the 'waiting' orders in ascending
\* order of id: no other complete order is in it.
C19_BoardLatestComplete ==
  source = "menu" =>
    [n \in 1..Len(ordersBody) |-> ordersBody[n].id]
      = (IF lastCompleted = NoRow THEN << >> ELSE << lastCompleted >>)
          \o Ascending(StatusIs("building")) \o Ascending(StatusIs("waiting"))

MaxRuns == 2

\* the query has no ORDER BY: res.rows comes in any order of the joined rows
RowOrders(cart, inv) ==
  LET rows == QueryRows(cart, inv)
  IN { [k \in 1..Len(rows) |-> rows[p[k]]] : p \in Permutations(1..Len(rows)) }

\* one more run of checkSufficientIngredients(checkArg); checked keeps the
\* result of every run
CheckRun ==
  /\ Len(checked) < MaxRuns
  /\ \E rows \in RowOrders(checkArg, inventory) :
       checked' = Append(checked, afterQuery(checkArg, rows))
  /\ UNCHANGED << lane, inventory, source, ordersBody, checkArg, pc, locals, res,
                  elsewhere >>

RunsNext == CheckRun

RunsSpec == CheckInit /\ [][RunsNext]_vars

\* C21: all runs on the same cart and the same tables return the same result.
C21_SameResultEveryRun ==
  \A m, n \in 1..Len(checked) : checked[m] = checked[n]

\* ------------------------------------- placeOrder with a negative quantity
\* request bodies with a line whose quantity is below zero
NegativeCarts == { << Line(1, -1) >>, << Line(1, 1), Line(2, -1) >> }

\* such a request arrives; the handler takes a pooled connection
PlaceOrderRequestNegative(c) ==
  /\ pc[c] = "idle"
  /\ order_seq < MaxOrders
  /\ \E cart \in NegativeCarts :
       /\ itemOrdered' = [itemOrdered EXCEPT ![c] = cart]
       /\ total' = [total EXCEPT ![c] = CartTotal(cart)]
  /\ pc' = [pc EXCEPT ![c] = "po_check"]
  /\ res' = [res EXCEPT ![c] = 0]
  /\ UNCHANGED << lane, others, checkBuilding, txOrder, txOrderMenu,
                  building_order, next_order >>

\* calls run one at a time; carts of either kind are posted
NegativeNext ==
  \E c \in Clients :
    \/ (Alone(c) /\ PlaceOrderRequest(c))
    \/ (Alone(c) /\ PlaceOrderRequestNegative(c))
    \/ (Alone(c) /\ PlaceOrderCheck(c))
    \/ (Alone(c) /\ PlaceOrderCheckBuilding(c))
    \/ (Alone(c) /\ PlaceOrderInsert(c))
    \/ (Alone(c) /\ PlaceOrderInsertMenu(c))
    \/ (Alone(c) /\ PlaceOrderCommit(c))
    \/ (Alone(c) /\ PlaceOrderRollback(c))
    \/ (Alone(c) /\ KitchenNextRequest(c))
    \/ (Alone(c) /\ updateOrderQuery(c))
    \/ (Alone(c) /\ KitchenNextCommit(c))
    \/ (Alone(c) /\ KitchenNextRollback(c))

NegativeSpec == Init /\ [][NegativeNext]_vars

\* C22: a placement whose cart has a line with a negative quantity leaves
\* 'po_check' only by being refused (it never reaches a statement of the
\* transaction), is never answered 201, and no step of it adds an order row
\* or an order_menu row.
C22_NegativeQuantityRejected ==
  [][\A c \in Clients :
       ( /\ pc[c] \in PlacePcs /\ Moves(c)
         /\ \E k \in 1..Len(itemOrdered[c]) : itemOrdered[c][k].quantity < 0 )
         => /\ pc'[c] = "idle" /\ res'[c] # 201
            /\ orders' = orders /\ order_menu' = order_menu]_vars

\* the lines of the cart whose menu item has recipe rows
WithRecipe(cart) == SelectSeq(cart, LAMBDA l : Recipe(l.id) # << >>)

\* C23: a cart whose menu items all have an empty recipe is reported
\* sufficient under every stock, and a cart is reported short exactly when the
\* cart without its empty-recipe lines is.
C23_EmptyRecipeNoDemand ==
  checked # << >> =>
    /\ WithRecipe(checkArg) = << >> => ~checked[1].low
    /\ checked[1].low = checkSufficientIngredients(WithRecipe(checkArg), inventory).low

\* C23 witness: sufficiency was reported for a cart of empty-recipe lines only
\* while every stock is zero.
C23_Witness ==
  /\ checked # << >> /\ ~checked[1].low
  /\ checkArg # << >> /\ WithRecipe(checkArg) = << >>
  /\ \A n \in DOMAIN inventory : inventory[n].stock_level = 0

\* ------------------------------------- POST /api/add-menu, PUT /api/update-menu
\* the categories MenuAdjust accepts
validCategories == {"entree", "drink", "side", "extra"}

\* categories a submission may carry: one valid as it is, one valid once in
\* lowercase, one not valid
Categories == {"side", "Drink", "soup"}

\* String.prototype.toLowerCase on the categories submitted
toLowerCase(c) == IF c = "Drink" THEN "drink" ELSE c

\* ingredientList of a submission: empty, one ingredient, or every ingredient
\* of the inventory as the form lists them, quantities from 0
IngredientLists ==
  { << >> }
    \cup { << [id |-> 1, quantity |-> q] >> : q \in 0..MaxRecipeQty }
    \cup { << [id |-> 1, quantity |-> q], [id |-> 2, quantity |-> r] >> :
             q, r \in 0..MaxRecipeQty }

\* req.body of add-menu
AddBodies == [category : Categories, ingredientList : IngredientLists]

\* req.body of update-menu for the rows of menu; category may be absent (null)
UpdateBodies ==
  [id : DOMAIN menu_table, category : Categories \cup {NullText},
   ingredientList : IngredientLists]

\* the menu_ingredients rows the loop of add-menu inserts for itemId
AddedRows(itemId, list) ==
  { [menu_item_id |-> itemId, inventory_id |-> list[k].id,
     quantity_needed |-> list[k].quantity] :
      k \in { n \in 1..Len(list) : list[n].quantity > 0 } }

\* the menu_ingredients rows the loop of update-menu inserts for the item
UpdatedRows(itemId, list) ==
  { [menu_item_id |-> itemId, inventory_id |-> list[k].id,
     quantity_needed |-> list[k].quantity] :
      k \in { n \in 1..Len(list) : list[n].quantity # 0 } }

\* add-menu from BEGIN to COMMIT: INSERT INTO menu, the ingredient loop, 200
addMenu(body) ==
  /\ menu_seq < MaxMenu
  /\ menu_seq' = menu_seq + 1
  /\ menu_table' = (menu_seq' :> [menu_category |-> body.category]) @@ menu_table
  /\ recipe_table' = recipe_table \cup AddedRows(menu_seq', body.ingredientList)
  /\ menuRes' = 200

\* update-menu from BEGIN to COMMIT: UPDATE menu, then, for a list that is not
\* empty, DELETE FROM menu_ingredients and the ingredient loop; 201
updateMenu(body) ==
  /\ menu_table' = IF body.category # NullText
                     THEN [menu_table EXCEPT ![body.id].menu_category = body.category]
                     ELSE menu_table
  /\ recipe_table' =
       IF Len(body.ingredientList) > 0
         THEN { r \in recipe_table : r.menu_item_id # body.id }
                \cup UpdatedRows(body.id, body.ingredientList)
         ELSE recipe_table
  /\ menu_seq' = menu_seq
  /\ menuRes' = 201

\* a statement of either handler throws: catch -> ROLLBACK, 500; a
\* menu_item_id the INSERT had taken is not given back
menuRollback ==
  /\ menu_seq' \in { menu_seq, IF menu_seq < MaxMenu THEN menu_seq + 1 ELSE menu_seq }
  /\ menuRes' = 500
  /\ UNCHANGED << menu_table, recipe_table >>

\* POST /api/add-menu with any body
AddMenu(body) ==
  /\ addMenu(body)
  /\ UNCHANGED << lane, inventory, source, ordersBody, checkArg, checked, pc, locals,
                  res, alerted, zReport, cartPage, kitchenPage >>

\* PUT /api/update-menu with any body
UpdateMenu(body) ==
  /\ updateMenu(body)
  /\ UNCHANGED << lane, inventory, source, ordersBody, checkArg, checked, pc, locals,
                  res, alerted, zReport, cartPage, kitchenPage >>

\* either request fails
MenuRollback ==
  /\ menuRollback
  /\ UNCHANGED << lane, inventory, source, ordersBody, checkArg, checked, pc, locals,
                  res, alerted, zReport, cartPage, kitchenPage >>

\* selectedItem of the MenuAdjust form: id 0 for a new item, category "" when
\* the field is empty
Forms ==
  [id : DOMAIN menu_table \cup {0}, category : Categories \cup {""},
   ingredientList : IngredientLists]

\* MenuAdjust.handleSubmit: required fields, category in lowercase checked
\* against validCategories, then editMenu or addMenu and the server's handler
MenuAdjustSubmit(form) ==
  /\ IF form.category = "" \/ toLowerCase(form.category) \notin validCategories
       THEN /\ alerted' = TRUE
            /\ UNCHANGED << menu_table, recipe_table, menu_seq, menuRes >>
       ELSE /\ alerted' = FALSE
            /\ \/ IF form.id # 0
                    THEN updateMenu([id |-> form.id,
                                     category |-> toLowerCase(form.category),
                                     ingredientList |-> form.ingredientList])
                    ELSE addMenu([category |-> toLowerCase(form.category),
                                  ingredientList |-> form.ingredientList])
               \/ menuRollback
  /\ UNCHANGED << lane, inventory, source, ordersBody, checkArg, checked, pc, locals,
                  res, zReport, cartPage, kitchenPage >>

MenuNext ==
  \/ \E body \in AddBodies : AddMenu(body)
  \/ \E body \in UpdateBodies : UpdateMenu(body)
  \/ MenuRollback
  \/ \E form \in Forms : MenuAdjustSubmit(form)

MenuSpec == Init /\ [][MenuNext]_vars

\* the stored recipe of menu item i: inventory_id and quantity_needed
RecipeOf(i) ==
  { << r.inventory_id, r.quantity_needed >> : r \in { x \in recipe_table : x.menu_item_id = i } }

\* C24: every update-menu step with ingredient list L leaves as the recipe of
\* the item exactly the entries of L with a quantity other than 0, and no
\* menu_ingredients row ever has quantity 0.
C24_RecipeReplaced ==
  /\ [][\A body \in UpdateBodies :
          UpdateMenu(body)
            => RecipeOf(body.id)'
                 = { << body.ingredientList[k].id, body.ingredientList[k].quantity >> :
                       k \in { n \in 1..Len(body.ingredientList) :
                                 body.ingredientList[n].quantity # 0 } }]_vars
  /\ [](\A r \in recipe_table : r.quantity_needed # 0)

\* C25: every row of menu has a category among entree, side, drink, extra in
\* lowercase, and an add-menu or update-menu request with any other category
\* leaves both tables as they were.
C25_CategoryValid ==
  /\ [](\A i \in DOMAIN menu_table : menu_table[i].menu_category \in validCategories)
  /\ [][/\ \A body \in AddBodies :
            (body.category \notin validCategories /\ AddMenu(body))
              => UNCHANGED << menu_table, recipe_table >>
        /\ \A body \in UpdateBodies :
            (body.category \notin validCategories \cup {NullText} /\ UpdateMenu(body))
              => UNCHANGED << menu_table, recipe_table >>]_vars

\* ------------------------------------------------------ GET /api/getZReport
\* the dates of the rows; CURRENT_DATE is "today"
Dates == {"today", "yesterday"}

\* the tables the report may find: at most one row per date
DailyTables ==
  { { [date |-> d, total_orders |-> n[d]] : d \in { e \in Dates : n[e] > 0 } } :
      n \in [Dates -> 0..MaxDaily] }

ZReportInit ==
  /\ LaneIdle /\ MenuIdle /\ CartIdle /\ PageIdle
  /\ daily_totals \in DailyTables
  /\ zpc = "idle"
  /\ zReportItems = << >>
  /\ zRes = 0

\* query_res.rows.map of SELECT ... WHERE date = CURRENT_DATE
TodaysItems ==
  IF \E r \in daily_totals : r.date = "today"
    THEN << LET r == CHOOSE x \in daily_totals : x.date = "today"
            IN [date |-> r.date, totalOrders |-> r.total_orders] >>
    ELSE << >>

\* the SELECT resolves and res.json(zReportItems) answers the request
getZReportSelect ==
  /\ zpc = "idle"
  /\ zReportItems' = TodaysItems
  /\ zRes' = 200
  /\ zpc' = "truncate"
  /\ UNCHANGED << lane, inventory, source, ordersBody, checkArg, checked, pc, locals,
                  res, daily_totals, menuAdmin, cartPage, kitchenPage >>

\* the SELECT throws: catch -> 500
getZReportSelectFails ==
  /\ zpc = "idle"
  /\ zReportItems' = << >>
  /\ zRes' = 500
  /\ zpc' = "idle"
  /\ UNCHANGED << lane, inventory, source, ordersBody, checkArg, checked, pc, locals,
                  res, daily_totals, menuAdmin, cartPage, kitchenPage >>

\* variant: only the rows of the day reported are deleted
getZReportTruncate_TodayOnly ==
  /\ zpc = "truncate"
  /\ daily_totals' = { r \in daily_totals : r.date # "today" }
  /\ zpc' = "idle"
  /\ UNCHANGED << lane, inventory, source, ordersBody, checkArg, checked, pc, locals,
                  res, zReportItems, zRes, menuAdmin, cartPage, kitchenPage >>

\* TRUNCATE TABLE daily_totals, then finally { client.release() }
getZReportTruncate ==
  /\ zpc = "truncate"
  /\ daily_totals' = {}
  /\ zpc' = "idle"
  /\ UNCHANGED << lane, inventory, source, ordersBody, checkArg, checked, pc, locals,
                  res, zReportItems, zRes, menuAdmin, cartPage, kitchenPage >>

\* the TRUNCATE throws after the answer was sent: the catch sets status 500,
\* the table stays as it was
getZReportTruncateFails ==
  /\ zpc = "truncate"
  /\ zRes' = 500
  /\ zpc' = "idle"
  /\ UNCHANGED << lane, inventory, source, ordersBody, checkArg, checked, pc, locals,
                  res, daily_totals, zReportItems, menuAdmin, cartPage, kitchenPage >>

ZReportNext ==
  \/ getZReportSelect
  \/ getZReportSelectFails
  \/ getZReportTruncate
  \/ getZReportTruncateFails

ZReportSpec == ZReportInit /\ [][ZReportNext]_vars

QtyInputs == (-1)..MaxCartQty

\* addItem: the line with the item's name gets quantity + 1, or a new line
\* with quantity 1 is appended
addItem(i) ==
  /\ \A k \in 1..Len(selectedItems) : selectedItems[k].quantity < MaxCartQty
  /\ selectedItems' =
       IF \E k \in 1..Len(selectedItems) : selectedItems[k].name = menu[i]
         THEN LET idx == Min({ k \in 1..Len(selectedItems) : selectedItems[k].name = menu[i] })
              IN [selectedItems EXCEPT ![idx].quantity = @ + 1]
         ELSE Append(selectedItems,
                     [id |-> i, name |-> menu[i], price |-> sales_price[i], quantity |-> 1])
  /\ UNCHANGED << thrown, fetches >>
  /\ UNCHANGED << lane, inventory, source, ordersBody, checkArg, checked, pc, locals,
                  res, menuAdmin, zReport, kitchenPage >>

\* removeItem: prev.filter((_, i) => i !== index)
removeItem(index) ==
  /\ selectedItems' = [k \in 1..(Len(selectedItems) - 1) |->
                         IF k < index THEN selectedItems[k] ELSE selectedItems[k + 1]]
  /\ UNCHANGED << thrown, fetches >>
  /\ UNCHANGED << lane, inventory, source, ordersBody, checkArg, checked, pc, locals,
                  res, menuAdmin, zReport, kitchenPage >>

\* clearOrder: setSelectedItems([])
clearOrder ==
  /\ selectedItems' = << >>
  /\ UNCHANGED << thrown, fetches >>
  /\ UNCHANGED << lane, inventory, source, ordersBody, checkArg, checked, pc, locals,
                  res, menuAdmin, zReport, kitchenPage >>

\* variant: the quantity is stored as it was typed
setQuantity_AsTyped(index, qty) ==
  /\ selectedItems' = [selectedItems EXCEPT ![index].quantity = qty]
  /\ UNCHANGED << thrown, fetches >>
  /\ UNCHANGED << lane, inventory, source, ordersBody, checkArg, checked, pc, locals,
                  res, menuAdmin, zReport, kitchenPage >>

\* setQuantity: updated[index] = {...updated[index], quantity: Math.max(0, qty)}
setQuantity(index, qty) ==
  /\ selectedItems' = [selectedItems EXCEPT ![index].quantity = IF qty > 0 THEN qty ELSE 0]
  /\ UNCHANGED << thrown, fetches >>
  /\ UNCHANGED << lane, inventory, source, ordersBody, checkArg, checked, pc, locals,
                  res, menuAdmin, zReport, kitchenPage >>

\* CashierScreen.handleQuantityChange on a list of the same shape:
\* newQuantity = Math.max(0, Number(event.target.value))
handleQuantityChange(index, value) ==
  /\ LET newQuantity == IF value > 0 THEN value ELSE 0
     IN selectedItems' = [selectedItems EXCEPT ![index].quantity = newQuantity]
  /\ UNCHANGED << thrown, fetches >>
  /\ UNCHANGED << lane, inventory, source, ordersBody, checkArg, checked, pc, locals,
                  res, menuAdmin, zReport, kitchenPage >>

\* placeOrder with selectedItems.length === 0: throws before the fetch
placeOrderEmpty ==
  /\ thrown # "pending"
  /\ selectedItems = << >>
  /\ thrown' = "empty"
  /\ UNCHANGED << selectedItems, fetches >>
  /\ UNCHANGED << lane, inventory, source, ordersBody, checkArg, checked, pc, locals,
                  res, menuAdmin, zReport, kitchenPage >>

\* placeOrder: the POST is sent, the call awaits the response
placeOrderFetch ==
  /\ thrown # "pending"
  /\ selectedItems # << >>
  /\ fetches < MaxFetches
  /\ fetches' = fetches + 1
  /\ thrown' = "pending"
  /\ UNCHANGED selectedItems
  /\ UNCHANGED << lane, inventory, source, ordersBody, checkArg, checked, pc, locals,
                  res, menuAdmin, zReport, kitchenPage >>

\* variant: the cart is cleared before response.ok is looked at
placeOrderResponse_ClearsFirst(ok) ==
  /\ thrown = "pending"
  /\ selectedItems' = << >>
  /\ thrown' = IF ok THEN "" ELSE "error"
  /\ UNCHANGED fetches
  /\ UNCHANGED << lane, inventory, source, ordersBody, checkArg, checked, pc, locals,
                  res, menuAdmin, zReport, kitchenPage >>

\* the response arrives: !response.ok throws, otherwise clearOrder()
placeOrderResponse(ok) ==
  /\ thrown = "pending"
  /\ IF ok THEN selectedItems' = << >> /\ thrown' = ""
           ELSE selectedItems' = selectedItems /\ thrown' = "error"
  /\ UNCHANGED fetches
  /\ UNCHANGED << lane, inventory, source, ordersBody, checkArg, checked, pc, locals,
                  res, menuAdmin, zReport, kitchenPage >>

CartNext ==
  \/ \E i \in DOMAIN menu : addItem(i)
  \/ \E index \in 1..Len(selectedItems) : removeItem(index)
  \/ clearOrder
  \/ \E index \in 1..Len(selectedItems), qty \in QtyInputs : setQuantity(index, qty)
  \/ \E index \in 1..Len(selectedItems), value \in QtyInputs :
       handleQuantityChange(index, value)
  \/ placeOrderEmpty
  \/ placeOrderFetch
  \/ \E ok \in BOOLEAN : placeOrderResponse(ok)

CartSpec == Init /\ [][CartNext]_vars

\* C27: every line of the cart has a quantity of zero or more.
C27_QuantityNeverNegative ==
  \A k \in 1..Len(selectedItems) : selectedItems[k].quantity >= 0

\* C27 witness: a cart of two lines in which a quantity was brought to zero.
C27_Witness ==
  /\ Len(selectedItems) = 2
  /\ \E k \in 1..Len(selectedItems) : selectedItems[k].quantity = 0

\* C30: placeOrder with an empty cart throws and sends nothing; a response with
\* an error makes it throw and leaves the cart as it is; the cart is emptied
\* by it when the response is a success.
C30_CartClearedOnlyOnSuccess ==
  [][/\ (thrown # "empty" /\ thrown' = "empty")
          => (selectedItems = << >> /\ fetches' = fetches /\ selectedItems' = selectedItems)
     /\ (selectedItems = << >> /\ thrown # "pending") => fetches' = fetches
     /\ (thrown = "pending" /\ thrown' = "error") => selectedItems' = selectedItems
     /\ (thrown = "pending" /\ thrown' = "") => selectedItems' = << >>]_vars

\* C30 witness: a request was sent, the answer was an error, and the cart
\* still has its lines.
C30_Witness ==
  /\ thrown = "error" /\ fetches > 0
  /\ selectedItems # << >>

\* ------------------------------------------------------ Kitchen page (client)
\* the lists GET /api/kitchenOrders?source=kitchen hands the page: orders in
\* ascending id, each building or waiting (the item lists are left out, the
\* handlers of the page never read them)
PageLists ==
  UNION { { [n \in 1..Cardinality(S) |-> [id |-> Ascending(S)[n], status |-> st[Ascending(S)[n]]]]
            : st \in [S -> {"building", "waiting"}] }
          : S \in SUBSET (1..MaxPageOrders) }

\* fetchOrders, response ok: setOrders(data) puts a new array in the state; a
\* handleNextOrder call that is awaiting keeps the array it closed over
fetchOrders(data) ==
  /\ pageOrders' = data
  /\ nextOrderCall' = IF nextOrderCall.pc = "await"
                        THEN [nextOrderCall EXCEPT !.stale = TRUE]
                        ELSE nextOrderCall
  /\ UNCHANGED << lane, inventory, source, ordersBody, checkArg, checked, pc, locals,
                  res, menuAdmin, zReport, cartPage >>

\* handleNextOrder up to its await (the button is disabled on an empty list)
handleNextOrder ==
  /\ nextOrderCall.pc = "idle"
  /\ Len(pageOrders) # 0
  /\ nextOrderCall' = [pc |-> "await", orders |-> pageOrders, stale |-> FALSE, res |-> 0]
  /\ UNCHANGED pageOrders
  /\ UNCHANGED << lane, inventory, source, ordersBody, checkArg, checked, pc, locals,
                  res, menuAdmin, zReport, cartPage >>

\* prevOrders.slice(1)
slice1(prevOrders) == SubSeq(prevOrders, 2, Len(prevOrders))

\* handleNextOrder after the await: !response.ok alerts and throws; otherwise
\* orders[1].status = "building" on the array closed over (a TypeError when
\* it has no second element), then setOrders(prev => prev.slice(1)); the
\* catch only logs
handleNextOrderResponse(ok) ==
  /\ nextOrderCall.pc = "await"
  /\ nextOrderCall' = [pc |-> "idle", orders |-> << >>, stale |-> FALSE,
                        res |-> IF ok THEN 200 ELSE 500]
  /\ pageOrders' =
       IF ~ok \/ Len(nextOrderCall.orders) < 2 THEN pageOrders
       ELSE IF nextOrderCall.stale THEN slice1(pageOrders)
       ELSE slice1([pageOrders EXCEPT ![2].status = "building"])
  /\ UNCHANGED << lane, inventory, source, ordersBody, checkArg, checked, pc, locals,
                  res, menuAdmin, zReport, cartPage >>

PageNext ==
  \/ \E data \in PageLists : fetchOrders(data)
  \/ handleNextOrder
  \/ \E ok \in BOOLEAN : handleNextOrderResponse(ok)

PageSpec == Init /\ [][PageNext]_vars

\* C28: when the request of handleNextOrder is answered with success (and the
\* list was not fetched anew meanwhile), the page's list loses its first order
\* and the order that is first afterwards is building, whatever the length of
\* the list, one order included.
C28_FirstDroppedNextBuilding ==
  [][(nextOrderCall.pc = "await" /\ ~nextOrderCall.stale /\ nextOrderCall'.res = 200)
       => /\ pageOrders' = [n \in 1..(Len(pageOrders) - 1) |->
                              IF n = 1 THEN [pageOrders[2] EXCEPT !.status = "building"]
                              ELSE pageOrders[n + 1]]]_vars

\* C29: in every committed state every building order has a smaller id than
\* every waiting order, and an order becomes complete only after every order
\* with a smaller id: at that step no order with a smaller id is waiting or
\* building and no order with a larger id is complete.
C29_CompletedInIdOrder ==
  /\ [](\A b \in StatusIs("building"), w \in StatusIs("waiting") : b < w)
  /\ [][\A i \in DOMAIN orders :
          (orders[i] # "complete" /\ i \in DOMAIN orders' /\ orders'[i] = "complete")
            => \A j \in DOMAIN orders' :
                 /\ j < i => orders'[j] = "complete"
                 /\ j > i => orders'[j] # "complete"]_vars
====
